---- MODULE Spec2Model ----
(***************************************************************************)
(* Model of src/acquisition/quidel/quidel_update.py: the incremental       *)
(* update of the `quidel` table from the Quidel measurement data.          *)
(*                                                                         *)
(* The table is a sequence of rows in insertion (auto-increment id) order. *)
(* `committed` is what the database holds durably; `work` is what the      *)
(* run's connection sees inside its open transaction (mysql.connector      *)
(* connections do not autocommit).                                         *)
(***************************************************************************)
EXTENDS Integers, Sequences, FiniteSets, TLC

\* ---------------------------------------------------------------- bounds
MaxPoints == 2        \* (location, epiweek) entries in the measurement data
MaxInitRows == 1      \* rows the table holds before the first run
MaxLocList == 2       \* length of the caller's location list

\* ------------------------------------------------------------- constants
EPOCH == 200401       \* ew0 when the table is empty
LOOKBACK == 4         \* weeks re-examined before the last stored week
IDX_ROWS == 3         \* measurement tuple index: # rows
IDX_VALUE == 7        \* measurement tuple index: (# rows)/(# unique devices)
IDX_DEVICES == 8      \* measurement tuple index: # unique devices

None == -1            \* Python None; SQL NULL for max(`epiweek`)
NoValue == <<0, 0>>   \* SQL NULL / the default of a column an INSERT leaves out

HhsLocs == {"hhs1"}
StateLocs == {"pa"}
Locs == HhsLocs \cup StateLocs
LOCATIONS == <<"hhs1">>
Weeks == {201747, 201801}
NowWeeks == {201803}
Fields == <<"value", "num_rows", "num_devices">>

\* measurement tuples, reduced to the counters the update reads
Tuples == {[rows |-> 0, devices |-> 0], [rows |-> 3, devices |-> 2]}

VARIABLES
  committed,        \* the `quidel` table as committed
  work,             \* the table as seen by the run's transaction
  cnx, cur,         \* connection and cursor: "none", "open", "closed"
  pc,               \* position of the run
  locations, first, last,   \* arguments of update()
  force_update, need_update,
  qd_data,          \* the raw data: what prepare_measurements returns for it
  qd_measurements,  \* the merged measurement dict
  now,              \* the calendar week yearweek(now(), 6)
  pass,             \* 1..3: which update_quid_db call is running
  todo,             \* the (location, ew, v) the loops of this pass have left
  k,                \* total_rows: upserts executed in this pass
  rows_before,      \* get_num_rows() at the start of the pass
  window,           \* <<ew0, ew1>> printed by the pass
  reports,          \* one printed summary per finished pass of this run
  before,           \* history: the table at the start of the pass
  issued,           \* history: the upserts executed in this pass
  commits,          \* history: commits issued by this run
  initial,          \* history: the committed table at the start of this run
  prev              \* history: how the last run that reached the connect
                    \* ended, and the committed table it left

vars == <<committed, work, cnx, cur, pc, locations, first, last, force_update,
          need_update, qd_data, qd_measurements, now, pass, todo, k, rows_before,
          window, reports, before, issued, commits, initial, prev>>

\* ------------------------------------------------------------- helpers
Range(s) == {s[n] : n \in DOMAIN s}

RECURSIVE SortedSeq(_)
\* sorted(S) for a finite set of integers
SortedSeq(S) ==
  IF S = {} THEN <<>>
  ELSE LET m == CHOOSE x \in S : \A y \in S : x <= y
       IN <<m>> \o SortedSeq(S \ {m})

RECURSIVE Gcd(_, _)
Gcd(a, b) == IF b = 0 THEN a ELSE Gcd(b, a % b)

\* Numbers bound to the SQL statements are kept exact, as reduced fractions
\* <<n, d>> with d > 0: the integer n is <<n, 1>>.
Quotient(n, d) == LET g == Gcd(n, d) IN <<n \div g, d \div g>>
Num(n) == <<n, 1>>
Zero == Num(0)

\* ------------------------------------------------- the `quidel` table
Row(l, w, v, n, d) ==
  [location |-> l, epiweek |-> w, value |-> v, num_rows |-> n, num_devices |-> d]

Key(r) == <<r.location, r.epiweek>>
Keys(t) == {Key(t[n]) : n \in DOMAIN t}
Rows(t) == Range(t)

\* a count of the locations, not of the rows
get_num_rows_Locations(t) == Cardinality({t[n].location : n \in DOMAIN t})

\* SELECT count(1) `num` FROM `quidel`
get_num_rows(t) == Len(t)

\* SELECT max(`epiweek`): NULL on an empty table
MaxEpiweek(t) ==
  IF t = <<>> THEN None
  ELSE CHOOSE w \in {t[n].epiweek : n \in DOMAIN t} :
         \A n \in DOMAIN t : t[n].epiweek <= w

\* the num_devices template copied from the num_rows template with its
\* column name left as it was
SetColumn_CopiedTemplate(r, update_field, v) ==
  CASE update_field = "value"       -> [r EXCEPT !.value = v]
    [] update_field = "num_rows"    -> [r EXCEPT !.num_rows = v]
    [] update_field = "num_devices" -> [r EXCEPT !.num_rows = v]

\* the three SQL templates: which column the statement names
SetColumn(r, update_field, v) ==
  CASE update_field = "value"       -> [r EXCEPT !.value = v]
    [] update_field = "num_rows"    -> [r EXCEPT !.num_rows = v]
    [] update_field = "num_devices" -> [r EXCEPT !.num_devices = v]

\* a plain INSERT: the duplicate key is not detected
Upsert_InsertOnly(t, update_field, l, w, v) ==
  Append(t, SetColumn(Row(l, w, NoValue, NoValue, NoValue), update_field, v))

\* a duplicate is detected only when the column already holds v
Upsert_KeyWithValue(t, update_field, l, w, v) ==
  LET new == SetColumn(Row(l, w, NoValue, NoValue, NoValue), update_field, v)
  IN IF \E n \in DOMAIN t : Key(t[n]) = <<l, w>> /\ SetColumn(t[n], update_field, v) = t[n]
     THEN t
     ELSE Append(t, new)

\* REPLACE INTO: the old row is deleted and a new one inserted
Upsert_Replace(t, update_field, l, w, v) ==
  LET new == SetColumn(Row(l, w, NoValue, NoValue, NoValue), update_field, v)
  IN IF \E n \in DOMAIN t : Key(t[n]) = <<l, w>>
     THEN [n \in DOMAIN t |-> IF Key(t[n]) = <<l, w>> THEN new ELSE t[n]]
     ELSE Append(t, new)

\* INSERT INTO `quidel` (`location`, `epiweek`, <column>) VALUES (l, w, v)
\* ON DUPLICATE KEY UPDATE <column> = v
\* (location, epiweek) is the table's unique key; a column the INSERT does not
\* name takes its default.
Upsert(t, update_field, l, w, v) ==
  IF \E n \in DOMAIN t : Key(t[n]) = <<l, w>>
  THEN [n \in DOMAIN t |->
          IF Key(t[n]) = <<l, w>> THEN SetColumn(t[n], update_field, v) ELSE t[n]]
  ELSE Append(t, SetColumn(Row(l, w, NoValue, NoValue, NoValue), update_field, v))

\* ------------------------------------------------------------- epiweeks
NumWeeks(year) == IF year \in {1997, 2003, 2008, 2014, 2020} THEN 53 ELSE 52

\* yyyyww names a week of its year
ValidEpiweek(ew) == ew % 100 \in 1..NumWeeks(ew \div 100)

RECURSIVE add_epiweeks(_, _)
add_epiweeks(ew, n) ==
  LET year == ew \div 100
      week == ew % 100
  IN IF n = 0 THEN ew
     ELSE IF n < 0
       THEN add_epiweeks(IF week = 1 THEN (year - 1) * 100 + NumWeeks(year - 1)
                         ELSE ew - 1, n + 1)
       ELSE add_epiweeks(IF week = NumWeeks(year) THEN (year + 1) * 100 + 1
                         ELSE ew + 1, n - 1)

\* the overrides are used only on an empty table
ResolveWindow_StoreFirst(t, f, l, ew1now) ==
  LET mx == MaxEpiweek(t)
  IN IF mx = None
     THEN <<IF f = None THEN EPOCH ELSE f, IF l = None THEN ew1now ELSE l>>
     ELSE <<add_epiweeks(mx, -LOOKBACK), ew1now>>

\* the lookback subtracted from the epiweek as from a plain integer
ResolveWindow_PlainMinus(t, f, l, ew1now) ==
  LET mx == MaxEpiweek(t)
      ew0 == IF mx = None THEN EPOCH ELSE mx - LOOKBACK
  IN <<IF f = None THEN ew0 ELSE f, IF l = None THEN ew1now ELSE l>>

\* lines 92-96: the window a pass resolves and prints
ResolveWindow(t, f, l, ew1now) ==
  LET mx == MaxEpiweek(t)
      ew0 == IF mx = None THEN EPOCH ELSE add_epiweeks(mx, -LOOKBACK)
  IN <<IF f = None THEN ew0 ELSE f, IF l = None THEN ew1now ELSE l>>

\* ----------------------------------------------------- measurement data
\* an entry of the hhs dict is kept when the state dict has the key too
MergeMeasurements_KeepRegional(hhs, atoms) ==
  [l \in DOMAIN hhs \cup DOMAIN atoms |->
     IF l \in DOMAIN hhs THEN hhs[l] ELSE atoms[l]]

\* lines 65-70: state measurements copied over the hhs measurement dict
MergeMeasurements(hhs, atoms) ==
  [l \in DOMAIN hhs \cup DOMAIN atoms |->
     IF l \in DOMAIN atoms THEN atoms[l] ELSE hhs[l]]

TupleField(m, index) ==
  CASE index = IDX_ROWS    -> Num(m.rows)
    [] index = IDX_DEVICES -> Num(m.devices)
    [] index = IDX_VALUE   -> IF m.devices = 0 THEN Zero
                              ELSE Quotient(m.rows, m.devices)

\* quidel.measurement_to_ts: one series of the measurement dict, restricted
\* to [startweek, endweek] (open where the bound is None)
measurement_to_ts(m, index, startweek, endweek) ==
  [l \in DOMAIN m |->
     [w \in {x \in DOMAIN m[l] : /\ (startweek = None \/ x >= startweek)
                                 /\ (endweek = None \/ x <= endweek)} |->
        TupleField(m[l][w], index)]]

FieldIndex(update_field) ==
  CASE update_field = "value"       -> IDX_VALUE
    [] update_field = "num_rows"    -> IDX_ROWS
    [] update_field = "num_devices" -> IDX_DEVICES

\* startweek and endweek passed for the value series only
qd_ts_UnboundedCounts(m, update_field, f, l) ==
  measurement_to_ts(m, FieldIndex(update_field),
                    IF update_field = "value" THEN f ELSE None,
                    IF update_field = "value" THEN l ELSE None)

\* lines 73-77: qd_ts_values, qd_ts_numrows, qd_ts_numdevices
qd_ts(m, update_field, f, l) == measurement_to_ts(m, FieldIndex(update_field), f, l)

\* ----------------------------------------------- the loop of lines 133-146
\* the (location, epiweek, v) triples of one location, epiweeks ascending
LocationTriples(ts, location) ==
  LET ews == SortedSeq(DOMAIN ts[location])
  IN [n \in 1..Len(ews) |-> <<location, ews[n], ts[location][ews[n]]>>]

RECURSIVE SeriesTriples(_, _)
SeriesTriples(ts, S) ==
  IF S = {} THEN <<>>
  ELSE LET l == CHOOSE x \in S : TRUE
       IN LocationTriples(ts, l) \o SeriesTriples(ts, S \ {l})

\* the loop runs over the locations of the series, not over `locations`
Triples_AllSeries(ts, locs) == SeriesTriples(ts, DOMAIN ts)

\* the caller's list reduced to its distinct locations before the loop
Triples_Unique(ts, locs) == SeriesTriples(ts, Range(locs) \cap DOMAIN ts)

RECURSIVE Triples(_, _)
\* the upserts of one pass, in the order the nested loop executes them
Triples(ts, locs) ==
  IF locs = <<>> THEN <<>>
  ELSE (IF Head(locs) \notin DOMAIN ts THEN <<>>
        ELSE LocationTriples(ts, Head(locs)))
       \o Triples(ts, Tail(locs))

\* num_missing incremented for every triple
NumMissing_EveryTriple(ts, location) == Cardinality(DOMAIN ts[location])

\* num_missing of one location: the triples with v == 0
NumMissing(ts, location) ==
  Cardinality({w \in DOMAIN ts[location] : ts[location][w] = Zero})

RECURSIVE MissingLines(_, _)
\* the ' [%s] missing %d/%d value(s)' lines of one pass
MissingLines(ts, locs) ==
  IF locs = <<>> THEN <<>>
  ELSE (IF Head(locs) \in DOMAIN ts /\ NumMissing(ts, Head(locs)) > 0
        THEN << <<Head(locs), NumMissing(ts, Head(locs)),
                  Cardinality(DOMAIN ts[Head(locs)])>> >>
        ELSE <<>>)
       \o MissingLines(ts, Tail(locs))

\* ------------------------------------------------------------- inputs
Points == Locs \X Weeks

\* a measurement dict: location -> epiweek -> tuple
ToMapping(f) ==
  [l \in {p[1] : p \in DOMAIN f} |->
     [w \in {p[2] : p \in {q \in DOMAIN f : q[1] = l}} |-> f[<<l, w>>]]]

NumPoints(m) == Cardinality({<<l, w>> \in Points : l \in DOMAIN m /\ w \in DOMAIN m[l]})

Mappings(locs) ==
  {ToMapping(f) : f \in UNION {[P -> Tuples] :
                      P \in {Q \in SUBSET (locs \X Weeks) : Cardinality(Q) <= MaxPoints}}}

\* what prepare_measurements returns for the raw data: hhs regions with
\* use_hhs=True, states with use_hhs=False
Datasets ==
  {d \in [hhs : Mappings(HhsLocs), atoms : Mappings(StateLocs)] :
     NumPoints(d.hhs) + NumPoints(d.atoms) <= MaxPoints}

\* rows written by complete runs before the first run of the behaviour
InitRows == {Row(l, w, Num(5), Num(5), Num(1)) : l \in HhsLocs, w \in Weeks}

RECURSIVE SeqsUpTo(_, _)
SeqsUpTo(S, n) ==
  IF n = 0 THEN {<<>>}
  ELSE SeqsUpTo(S, n - 1) \cup
       {Append(s, x) : s \in {q \in SeqsUpTo(S, n - 1) : Len(q) = n - 1}, x \in S}

UniqueKeys(t) == \A a, b \in DOMAIN t : Key(t[a]) = Key(t[b]) => a = b

InitTables == {t \in SeqsUpTo(InitRows, MaxInitRows) : UniqueKeys(t)}

\* update() is called with LOCATIONS or with the split of --location
LocLists == {LOCATIONS} \cup (SeqsUpTo(Locs, MaxLocList) \ {<<>>})

Overrides == {None} \cup Weeks

Ended == {"idle", "rejected", "skipped", "failed", "done"}

\* ------------------------------------------------------------- Init
Init ==
  /\ committed \in InitTables
  /\ work = <<>>
  /\ cnx = "none" /\ cur = "none"
  /\ pc = "idle"
  /\ locations \in LocLists
  /\ first \in Overrides /\ last \in Overrides
  /\ force_update = FALSE /\ need_update = FALSE
  /\ qd_data \in Datasets
  /\ qd_measurements = <<>>
  /\ now \in NowWeeks
  /\ pass = 0 /\ todo = <<>> /\ k = 0 /\ rows_before = 0
  /\ window = <<None, None>>
  /\ reports = <<>>
  /\ before = <<>> /\ issued = <<>>
  /\ commits = 0
  /\ initial = committed
  /\ prev = [outcome |-> "none", table |-> <<>>]

\* ------------------------------------------------------------- actions
args == <<locations, first, last, qd_data, now>>
flags == <<force_update, need_update>>
conn == <<cnx, cur>>
locals == <<pass, todo, k, rows_before, window, before, issued>>

\* a new process: nothing of the previous run's locals or output is left
NewRun ==
  /\ pc \in Ended
  /\ prev' = IF pc \in {"done", "failed"}
             THEN [outcome |-> pc, table |-> committed]
             ELSE prev
  /\ force_update' = FALSE
  /\ work' = <<>>
  /\ cnx' = "none" /\ cur' = "none"
  /\ need_update' = FALSE
  /\ qd_measurements' = <<>>
  /\ pass' = 0 /\ todo' = <<>> /\ k' = 0 /\ rows_before' = 0
  /\ window' = <<None, None>>
  /\ reports' = <<>>
  /\ before' = <<>> /\ issued' = <<>>
  /\ commits' = 0
  /\ initial' = committed
  /\ UNCHANGED <<committed, args>>

\* lines 163-171: the command line is parsed
Main ==
  /\ NewRun
  /\ pc' = "main"

\* the order of the overrides is not checked
SanityCheck_NoOrder ==
  /\ pc = "main"
  /\ pc' = "update"
  /\ UNCHANGED <<committed, work, conn, args, flags, qd_measurements, locals,
                 reports, commits, initial, prev>>

\* lines 173-190: the sanity check, then update()
SanityCheck ==
  /\ pc = "main"
  /\ IF first # None /\ last # None /\ first > last
     THEN pc' = "rejected"
     ELSE pc' = "update"
  /\ UNCHANGED <<committed, work, conn, args, flags, qd_measurements, locals,
                 reports, commits, initial, prev>>

\* update() called by another module, not through main()
CallUpdate ==
  /\ NewRun
  /\ pc' = "update"

\* force_update is not consulted
CheckUpdate_IgnoreForce ==
  /\ pc = "update"
  /\ \E nu, f \in BOOLEAN :
       /\ need_update' = nu
       /\ force_update' = f
       /\ IF ~nu
          THEN pc' = "skipped"
          ELSE pc' = "load"
  /\ UNCHANGED <<committed, work, conn, args, qd_measurements,
                 locals, reports, commits, initial, prev>>

\* lines 54-59: the force_update argument and what QuidelData reports
CheckUpdate ==
  /\ pc = "update"
  /\ \E nu, f \in BOOLEAN :
       /\ need_update' = nu
       /\ force_update' = f
       /\ IF ~nu /\ ~f
          THEN pc' = "skipped"
          ELSE pc' = "load"
  /\ UNCHANGED <<committed, work, conn, args, qd_measurements,
                 locals, reports, commits, initial, prev>>

\* lines 61-77; need_update and force_update are not read again
LoadMeasurements ==
  /\ pc = "load"
  /\ qd_measurements' = MergeMeasurements(qd_data.hhs, qd_data.atoms)
  /\ need_update' = FALSE /\ force_update' = FALSE
  /\ pc' = "connect"
  /\ UNCHANGED <<committed, work, conn, args, locals, reports, commits,
                 initial, prev>>

\* lines 80-82
Connect ==
  /\ pc = "connect"
  /\ cnx' = "open" /\ cur' = "open"
  /\ work' = committed
  /\ pass' = 1
  /\ pc' = "begin"
  /\ UNCHANGED <<committed, args, flags, qd_measurements, todo, k, rows_before,
                 window, before, issued, reports, commits, initial, prev>>

\* the qd_ts argument of the running pass
CurTs == qd_ts(qd_measurements, Fields[pass], first, last)

\* the rows of the resolved window are deleted before the pass writes
BeginPass_ClearWindow ==
  /\ pc = "begin"
  /\ window' = ResolveWindow(work, first, last, now)
  /\ work' = SelectSeq(work, LAMBDA r : r.epiweek < window'[1] \/ r.epiweek > window'[2])
  /\ rows_before' = get_num_rows(work)
  /\ before' = work
  /\ todo' = Triples(CurTs, locations)
  /\ k' = 0
  /\ issued' = <<>>
  /\ pc' = "loop"
  /\ UNCHANGED <<committed, conn, args, flags, qd_measurements, pass,
                 reports, commits, initial, prev>>

\* lines 92-100 and 131
BeginPass ==
  /\ pc = "begin"
  /\ window' = ResolveWindow(work, first, last, now)
  /\ rows_before' = get_num_rows(work)
  /\ before' = work
  /\ todo' = Triples(CurTs, locations)
  /\ k' = 0
  /\ issued' = <<>>
  /\ pc' = "loop"
  /\ UNCHANGED <<committed, work, conn, args, flags, qd_measurements, pass,
                 reports, commits, initial, prev>>

\* lines 139-142: one cur.execute(sql, sql_data)
DoUpsert ==
  /\ pc = "loop"
  /\ todo # <<>>
  /\ LET tr == Head(todo)
     IN /\ work' = Upsert(work, Fields[pass], tr[1], tr[2], tr[3])
        /\ issued' = Append(issued, [update_field |-> Fields[pass],
                                     location |-> tr[1], epiweek |-> tr[2], v |-> tr[3]])
  /\ todo' = Tail(todo)
  /\ k' = k + 1
  /\ UNCHANGED <<committed, conn, pc, args, flags, qd_measurements, pass,
                 rows_before, window, before, reports, commits, initial, prev>>

\* a commit at the end of every pass
EndPass_Commit ==
  /\ pc = "loop"
  /\ todo = <<>>
  /\ reports' = Append(reports,
       [update_field |-> Fields[pass],
        window |-> window,
        inserted |-> get_num_rows(work) - rows_before,
        considered |-> k,
        missing |-> MissingLines(CurTs, locations)])
  /\ committed' = work
  /\ commits' = commits + 1
  /\ IF pass < 3
     THEN pass' = pass + 1 /\ pc' = "begin"
     ELSE pass' = pass /\ pc' = "cleanup"
  /\ UNCHANGED <<work, conn, args, flags, qd_measurements, todo, k, rows_before,
                 window, before, issued, initial, prev>>

\* lines 148-150, and the return to lines 153-155
EndPass ==
  /\ pc = "loop"
  /\ todo = <<>>
  /\ reports' = Append(reports,
       [update_field |-> Fields[pass],
        window |-> window,
        inserted |-> get_num_rows(work) - rows_before,
        considered |-> k,
        missing |-> MissingLines(CurTs, locations)])
  /\ IF pass < 3
     THEN pass' = pass + 1 /\ pc' = "begin"
     ELSE pass' = pass /\ pc' = "cleanup"
  /\ UNCHANGED <<committed, work, conn, args, flags, qd_measurements, todo, k,
                 rows_before, window, before, issued, commits, initial, prev>>

\* lines 158-160
Cleanup ==
  /\ pc = "cleanup"
  /\ cur' = "closed"
  /\ committed' = work
  /\ commits' = commits + 1
  /\ cnx' = "closed"
  /\ pc' = "done"
  /\ UNCHANGED <<work, args, flags, qd_measurements, locals, reports, initial, prev>>

\* the frame of update() is unwound by the exception
Unwind ==
  /\ qd_measurements' = <<>>
  /\ pass' = 0 /\ todo' = <<>> /\ k' = 0 /\ rows_before' = 0
  /\ window' = <<None, None>>
  /\ before' = <<>> /\ issued' = <<>>

\* a connection that autocommits: the statements executed so far stay
Fail_Autocommit ==
  /\ pc \in {"connect", "begin", "loop", "cleanup"}
  /\ pc' = "failed"
  /\ committed' = IF pc = "connect" THEN committed ELSE work
  /\ work' = <<>>
  /\ cur' = IF pc = "cleanup" THEN "closed" ELSE cur
  /\ Unwind
  /\ UNCHANGED <<cnx, args, flags, reports, commits, initial, prev>>

\* mysql.connector raises at the connect or at a statement: update() has no
\* handler, so the exception leaves update() and main(); the transaction of
\* the abandoned connection is rolled back by the server
Fail ==
  /\ pc \in {"connect", "begin", "loop", "cleanup"}
  /\ pc' = "failed"
  /\ work' = <<>>
  /\ cur' = IF pc = "cleanup" THEN "closed" ELSE cur
  /\ Unwind
  /\ UNCHANGED <<committed, cnx, args, flags, reports, commits, initial, prev>>

Next ==
  \/ Main
  \/ SanityCheck
  \/ CallUpdate
  \/ CheckUpdate
  \/ LoadMeasurements
  \/ Connect
  \/ BeginPass
  \/ DoUpsert
  \/ EndPass
  \/ Cleanup
  \/ Fail

Spec == Init /\ [][Next]_vars

TypeOK ==
  /\ pc \in Ended \cup {"main", "update", "load", "connect", "begin", "loop", "cleanup"}
  /\ cnx \in {"none", "open", "closed"} /\ cur \in {"none", "open", "closed"}
  /\ pass \in 0..3
  /\ prev.outcome \in {"none", "done", "failed"}

\* ------------------------------------------------- one call of update()
\* the first call of the process
FirstCall ==
  /\ pc = "idle"
  /\ CallUpdate

\* one call of update() on any table, data and arguments, with a database
\* that answers every statement
NextRun ==
  \/ FirstCall
  \/ CheckUpdate
  \/ LoadMeasurements
  \/ Connect
  \/ BeginPass
  \/ DoUpsert
  \/ EndPass
  \/ Cleanup

SpecRun == Init /\ [][NextRun]_vars

\* ----------------------------------------------- the merge on any dicts
\* the two results of prepare_measurements as dicts over any location names,
\* the same name in both included
MergeInputs == [hhs : Mappings(Locs), atoms : Mappings(Locs)]

\* a call of update() for each pair of dicts
InitMerge ==
  /\ committed = <<>>
  /\ work = <<>>
  /\ cnx = "none" /\ cur = "none"
  /\ pc = "update"
  /\ locations = LOCATIONS
  /\ first = None /\ last = None
  /\ force_update = FALSE /\ need_update = FALSE
  /\ qd_data \in MergeInputs
  /\ qd_measurements = <<>>
  /\ now \in NowWeeks
  /\ pass = 0 /\ todo = <<>> /\ k = 0 /\ rows_before = 0
  /\ window = <<None, None>>
  /\ reports = <<>>
  /\ before = <<>> /\ issued = <<>>
  /\ commits = 0
  /\ initial = committed
  /\ prev = [outcome |-> "none", table |-> <<>>]

\* update() up to the merged dict of line 70
NextMerge ==
  \/ CheckUpdate
  \/ LoadMeasurements

SpecMerge == InitMerge /\ [][NextMerge]_vars

\* ------------------------------------------------- a run as a function
RECURSIVE ApplyTriples(_, _, _)
ApplyTriples(t, update_field, trs) ==
  IF trs = <<>> THEN t
  ELSE ApplyTriples(Upsert(t, update_field, trs[1][1], trs[1][2], trs[1][3]),
                    update_field, Tail(trs))

\* update_quid_db(qd_ts, update_field) on table t
PassResult(t, m, update_field, f, l, locs) ==
  ApplyTriples(t, update_field, Triples(qd_ts(m, update_field, f, l), locs))

\* lines 153-155 on table t
UpdateResult(t, d, f, l, locs) ==
  LET m == MergeMeasurements(d.hhs, d.atoms)
      t1 == PassResult(t, m, "value", f, l, locs)
      t2 == PassResult(t1, m, "num_rows", f, l, locs)
  IN PassResult(t2, m, "num_devices", f, l, locs)

\* the upserts of each of the three passes
PassTriples(m, f, l, locs) ==
  [update_field \in Range(Fields) |-> Triples(qd_ts(m, update_field, f, l), locs)]

\* the three update_quid_db calls made in the order `order` on table t
PassesInOrder(t, trs, order) ==
  LET t1 == ApplyTriples(t, order[1], trs[order[1]])
      t2 == ApplyTriples(t1, order[2], trs[order[2]])
  IN ApplyTriples(t2, order[3], trs[order[3]])

\* the six orders of the three passes
Orders == {o \in [1..3 -> Range(Fields)] : Range(o) = Range(Fields)}

\* ------------------------------------------------------------- claims
BadOrder == first # None /\ last # None /\ first > last

\* a pass has ended and the next statement has not run yet
PassEnded == pc \in {"begin", "cleanup"} /\ Len(reports) >= 1
LastReport == reports[Len(reports)]
\* the series the ended pass wrote
LastTs == qd_ts(qd_measurements, LastReport.update_field, first, last)
\* the column of row r that a pass of update_field writes
Column(r, update_field) ==
  CASE update_field = "value"       -> r.value
    [] update_field = "num_rows"    -> r.num_rows
    [] update_field = "num_devices" -> r.num_devices
\* the epiweeks the ended pass wrote for location l, and those written as 0
IssuedWeeks(l) == {issued[n].epiweek : n \in {i \in DOMAIN issued : issued[i].location = l}}
IssuedZeros(l) ==
  {issued[n].epiweek : n \in {i \in DOMAIN issued : /\ issued[i].location = l
                                                     /\ issued[i].v = Zero}}
Occurrences(s, x) == Cardinality({n \in DOMAIN s : s[n] = x})
\* the (location, epiweek) of the series of update_field
SeriesKeys(update_field) ==
  LET ts == qd_ts(qd_measurements, update_field, first, last)
  IN {p \in Points : p[1] \in DOMAIN ts /\ p[2] \in DOMAIN ts[p[1]]}
RECURSIVE Unique(_)
\* the list with each location at its first occurrence only
Unique(s) ==
  IF s = <<>> THEN <<>>
  ELSE LET init == Unique(SubSeq(s, 1, Len(s) - 1))
       IN IF s[Len(s)] \in Range(init) THEN init ELSE Append(init, s[Len(s)])
RECURSIVE PerOccurrence(_)
\* the triples of the ended pass, counted once for each entry of the list
PerOccurrence(locs) ==
  IF locs = <<>> THEN 0
  ELSE Cardinality(IssuedWeeks(Head(locs))) + PerOccurrence(Tail(locs))
IssuedKeys == {<<issued[n].location, issued[n].epiweek>> : n \in DOMAIN issued}

\* C1: two complete runs in a row over the same input leave the same records
\* with the same value, num_rows and num_devices after the second run as
\* after the first.
C1_Idempotent ==
  (pc = "done" /\ prev.outcome = "done") =>
    /\ Rows(committed) = Rows(prev.table)
    /\ Len(committed) = Len(prev.table)

C1_Witness ==
  /\ pc = "done" /\ prev.outcome = "done"
  /\ Len(issued) >= 2
  /\ Len(committed) >= 2
  /\ committed = prev.table

\* C2: an upsert of column m on a key that has a record changes only column
\* m of that record; its other two columns and every other record are
\* unchanged.
C2_ColumnIsolation ==
  [][(pc = "loop" /\ k' = k + 1) =>
       LET u == issued'[Len(issued')]
       IN \A n \in DOMAIN work :
            /\ n \in DOMAIN work'
            /\ IF Key(work[n]) = <<u.location, u.epiweek>>
               THEN /\ Key(work'[n]) = Key(work[n])
                    /\ u.update_field # "value" => work'[n].value = work[n].value
                    /\ u.update_field # "num_rows" => work'[n].num_rows = work[n].num_rows
                    /\ u.update_field # "num_devices" =>
                         work'[n].num_devices = work[n].num_devices
               ELSE work'[n] = work[n]]_vars

C2_Witness ==
  /\ pc = "loop" /\ pass = 2 /\ k >= 1
  /\ \E n \in DOMAIN before :
       /\ Key(before[n]) = <<issued[k].location, issued[k].epiweek>>
       /\ before[n].value # NoValue /\ before[n].num_devices # NoValue
       /\ work[n].num_rows # before[n].num_rows
       /\ work[n].value = before[n].value
       /\ work[n].num_devices = before[n].num_devices
  /\ Len(work) >= 2

\* C3: in every reachable state the table, committed or inside the running
\* transaction, holds at most one record per (location, epiweek).
C3_KeyUniqueness == UniqueKeys(committed) /\ UniqueKeys(work)

C3_Witness ==
  /\ pc = "done" /\ prev.outcome = "done"
  /\ \E a, b \in DOMAIN issued :
       a # b /\ issued[a].location = issued[b].location
             /\ issued[a].epiweek = issued[b].epiweek
  /\ committed # <<>>

\* C4: a run commits once, after the last upsert of the third pass; until
\* then the committed table is the one the run started with.
C4_SingleCommit ==
  /\ commits <= 1
  /\ pc # "done" => (commits = 0 /\ committed = initial)
  /\ pc = "done" =>
       /\ commits = 1
       /\ Len(reports) = 3 /\ pass = 3
       /\ todo = <<>>
       /\ committed = work

C4_Witness ==
  /\ pc = "loop" /\ pass = 3 /\ k >= 1
  /\ work # committed
  /\ Keys(work) # Keys(committed)

\* C5: a failure at the connect or at any statement surfaces, leaves the
\* committed table as it was before the run, and a complete run after it
\* ends with the records of a run that never failed.
C5_FailureSafe ==
  /\ pc = "failed" => (committed = initial /\ commits = 0)
  /\ (pc = "done" /\ prev.outcome = "failed") =>
       /\ initial = prev.table
       /\ Rows(committed) = Rows(UpdateResult(prev.table, qd_data, first, last, locations))

C5_Witness ==
  /\ pc = "done" /\ prev.outcome = "failed"
  /\ prev.table # <<>>
  /\ Keys(committed) # Keys(prev.table)

\* C6: an override replaces its end of the window and only that end: with
\* both, every pass resolves exactly [first, last], whatever the table holds
\* and whatever the calendar week is.
C6_WindowOverride ==
  /\ pc = "loop" =>
       /\ first # None => window[1] = first
       /\ last # None => window[2] = last
       /\ first = None => window[1] = ResolveWindow(before, None, None, now)[1]
       /\ last = None => window[2] = now
  /\ \A n \in DOMAIN reports :
       /\ first # None => reports[n].window[1] = first
       /\ last # None => reports[n].window[2] = last

C6_Witness ==
  /\ pc = "loop" /\ pass = 3
  /\ first # None /\ last # None /\ first <= last
  /\ before # <<>>
  /\ ResolveWindow(before, None, None, now) # <<first, last>>
  /\ window = <<first, last>>

\* C7 as stated: with first > last, no run makes a storage call, whatever
\* the entry point.
C7_RejectedEverywhere ==
  BadOrder => (cnx = "none" /\ cur = "none" /\ commits = 0 /\ issued = <<>>)

\* C7, amended: with first > last, a run started through main() ends at the
\* sanity check with the error, before the data is loaded and before any
\* storage call.
C7_MainRejects ==
  [][(pc = "main" /\ BadOrder) =>
       /\ pc' = "rejected"
       /\ cnx' = "none" /\ cur' = "none"
       /\ issued' = <<>> /\ commits' = 0
       /\ window' = <<None, None>> /\ reports' = <<>>
       /\ qd_measurements' = <<>>
       /\ committed' = committed /\ prev' = prev]_vars

C7_Witness ==
  /\ pc = "rejected" /\ BadOrder
  /\ cnx = "none" /\ commits = 0
  /\ committed # <<>>

\* C8: the upserts of a pass are exactly the (location, epiweek) of the
\* series whose location is in the caller's list, each with the value of the
\* series.
C8_LocationFilter ==
  PassEnded =>
    /\ IssuedKeys = {p \in Points : /\ p[1] \in Range(locations)
                                    /\ p[1] \in DOMAIN LastTs
                                    /\ p[2] \in DOMAIN LastTs[p[1]]}
    /\ \A n \in DOMAIN issued :
         /\ issued[n].update_field = LastReport.update_field
         /\ issued[n].v = LastTs[issued[n].location][issued[n].epiweek]

C8_Witness ==
  /\ PassEnded
  /\ issued # <<>>
  /\ \E l \in Range(locations) : l \notin DOMAIN LastTs
  /\ \E l \in Range(locations) : l \in DOMAIN LastTs

\* C9: a pass reports as inserted the keys that had no record before the
\* pass and have one after it, and as considered the triples it wrote.
C9_RowDelta ==
  PassEnded =>
    /\ LastReport.inserted = Cardinality(Keys(work) \ Keys(before))
    /\ LastReport.considered = Len(issued)

C9_Witness ==
  /\ PassEnded
  /\ LastReport.inserted >= 1
  /\ LastReport.considered > LastReport.inserted
  /\ Cardinality(IssuedKeys) = LastReport.considered
  /\ IssuedKeys \cap Keys(before) # {}

\* C10: with need_update false and force_update false the run ends without
\* a connection, query, upsert or commit; otherwise it goes on to load the
\* data and run the passes.
C10_ShortCircuit ==
  [][pc = "update" =>
       IF ~need_update' /\ ~force_update'
       THEN /\ pc' = "skipped"
            /\ cnx' = "none" /\ cur' = "none"
            /\ issued' = <<>> /\ commits' = 0
            /\ window' = <<None, None>> /\ reports' = <<>>
            /\ committed' = committed /\ prev' = prev
       ELSE pc' = "load"]_vars

C10_Witness ==
  /\ pc = "skipped"
  /\ ~need_update /\ ~force_update
  /\ cnx = "none" /\ commits = 0
  /\ committed # <<>>

\* C11 as stated: every upsert of a pass has its epiweek inside the window
\* <<ew0, ew1>> the pass resolved, also when an override is missing.
C11_WindowBoundsWrites ==
  pc = "loop" =>
    \A n \in DOMAIN issued :
      window[1] <= issued[n].epiweek /\ issued[n].epiweek <= window[2]

\* C12 as stated: the passes of a run all resolve the same window.
C12_SameWindow ==
  \A a, b \in DOMAIN reports : reports[a].window = reports[b].window

\* C13: the three passes executed in any of the six orders leave the
\* records, with their three columns, that the run's order value, num_rows,
\* num_devices leaves.
C13_OrderIndependent ==
  pc = "done" =>
    LET trs == PassTriples(qd_measurements, first, last, locations)
    IN \A o \in Orders : Rows(PassesInOrder(initial, trs, o)) = Rows(committed)

C13_Witness ==
  /\ pc = "done"
  /\ initial # <<>>
  /\ Keys(committed) # Keys(initial)
  /\ \E r \in Rows(committed) :
       /\ Key(r) \in Keys(initial)
       /\ r \notin Rows(initial)
       /\ r.value # r.num_rows /\ r.num_rows # r.num_devices

\* C14: without a first override a pass resolves as start the epoch 200401
\* on an empty table and otherwise the epiweek exactly LOOKBACK epiweeks
\* before the largest stored epiweek; without a last override it resolves as
\* end the calendar week the server reports.
C14_DefaultWindow ==
  pc = "loop" =>
    /\ first = None =>
         IF before = <<>>
         THEN window[1] = EPOCH
         ELSE /\ ValidEpiweek(window[1])
              /\ window[1] < MaxEpiweek(before)
              /\ Cardinality({e \in window[1]..(MaxEpiweek(before) - 1) :
                                ValidEpiweek(e)}) = LOOKBACK
    /\ last = None => window[2] = now

C14_Witness ==
  /\ pc = "loop" /\ pass = 2
  /\ first = None /\ last = None
  /\ MaxEpiweek(before) = 201801
  /\ MaxEpiweek(initial) = 201747
  /\ window = <<201749, now>>

\* C15 as stated: a run that has returned or has propagated an error holds
\* no open connection and no open cursor.
C15_GuaranteedRelease ==
  pc \in {"done", "failed"} => (cnx # "open" /\ cur # "open")

\* C16: no step removes a stored record: the committed keys and row count
\* never shrink, inside a run's transaction every query, upsert and pass
\* keeps the keys it found and at least as many rows, and every pass reports
\* an inserted count of at least 0.
C16_NoDeletion ==
  [][/\ Keys(committed) \subseteq Keys(committed')
     /\ Len(committed') >= Len(committed)
     /\ (cnx = "open" /\ pc' # "failed") =>
          /\ Keys(work) \subseteq Keys(work')
          /\ Len(work') >= Len(work)
     /\ pc' = "loop" => Keys(initial') \subseteq Keys(work')
     /\ \A n \in DOMAIN reports' : reports'[n].inserted >= 0]_vars

C16_Witness ==
  /\ pc = "done"
  /\ initial # <<>>
  /\ Len(committed) > Len(initial)
  /\ \E n \in DOMAIN initial : initial[n] \notin Rows(committed)
  /\ \E n \in DOMAIN reports : reports[n].inserted = 0
  /\ \E n \in DOMAIN reports : reports[n].inserted > 0

\* C17: a pass prints a missing line for a location once per time it
\* processed the location, and only when at least one of the location's
\* values is exactly 0; the line carries the number of those values and the
\* number of the location's triples. A value of 0 is executed and stored as
\* any other value, and the pass goes on to its end.
C17_MissingCount ==
  PassEnded =>
    LET lines == LastReport.missing
    IN /\ \A n \in DOMAIN lines :
            /\ lines[n][2] > 0
            /\ lines[n][2] = Cardinality(IssuedZeros(lines[n][1]))
            /\ lines[n][3] = Cardinality(IssuedWeeks(lines[n][1]))
       /\ \A l \in Locs :
            Occurrences(lines, <<l, Cardinality(IssuedZeros(l)),
                                 Cardinality(IssuedWeeks(l))>>)
              = IF IssuedZeros(l) = {} THEN 0 ELSE Occurrences(locations, l)
       /\ Len(lines) = Cardinality({n \in DOMAIN locations :
                                      IssuedZeros(locations[n]) # {}})
       /\ todo = <<>> /\ LastReport.considered = Len(issued)
       /\ \A n \in DOMAIN issued :
            \E r \in Rows(work) :
              /\ Key(r) = <<issued[n].location, issued[n].epiweek>>
              /\ Column(r, issued[n].update_field) = issued[n].v

C17_Witness ==
  /\ pc = "cleanup"
  /\ \E l \in Locs :
       /\ IssuedZeros(l) # {}
       /\ IssuedZeros(l) # IssuedWeeks(l)
       /\ \E r \in Rows(work) : r.location = l /\ r.num_devices = Zero
  /\ LastReport.missing = << <<"hhs1", 1, 2>> >>

\* C18: the merged dict has the locations of both dicts; a location of the
\* state dict has the state dict's whole epiweek map, also when the hhs dict
\* has the location with other epiweeks; a location of the hhs dict alone
\* has the hhs dict's map.
C18_MergePrecedence ==
  pc = "connect" =>
    /\ DOMAIN qd_measurements = DOMAIN qd_data.hhs \cup DOMAIN qd_data.atoms
    /\ \A l \in DOMAIN qd_data.atoms : qd_measurements[l] = qd_data.atoms[l]
    /\ \A l \in DOMAIN qd_data.hhs \ DOMAIN qd_data.atoms :
         qd_measurements[l] = qd_data.hhs[l]

C18_Witness ==
  /\ pc = "connect"
  /\ \E l \in DOMAIN qd_data.hhs \cap DOMAIN qd_data.atoms :
       /\ DOMAIN qd_data.hhs[l] \ DOMAIN qd_data.atoms[l] # {}
       /\ DOMAIN qd_measurements[l] = DOMAIN qd_data.atoms[l]
  /\ DOMAIN qd_data.hhs \ DOMAIN qd_data.atoms # {}

\* C19: the three series of a run have the same (location, epiweek) keys,
\* so the num_rows and num_devices passes find every key they write: they
\* leave the key set as the value pass left it and report 0 inserted rows.
C19_FirstPassCreates ==
  /\ pc = "connect" =>
       /\ SeriesKeys("num_rows") = SeriesKeys("value")
       /\ SeriesKeys("num_devices") = SeriesKeys("value")
  /\ (pc = "loop" /\ pass >= 2) => Keys(work) = Keys(before)
  /\ \A n \in DOMAIN reports : n >= 2 => reports[n].inserted = 0
  /\ pc = "done" =>
       Cardinality(Keys(committed) \ Keys(initial)) = reports[1].inserted

C19_Witness ==
  /\ pc = "done"
  /\ reports[1].inserted = 2
  /\ reports[2].considered = 2 /\ reports[2].inserted = 0
  /\ reports[3].considered = 2 /\ reports[3].inserted = 0
  /\ first # None

\* C20: a pass reports at most as many inserted rows as triples
\* considered; a location listed more than once is written and counted as
\* considered once for each entry of the list, and the table and the
\* inserted count are those of the pass over the list without repetitions.
C20_RepeatedLocation ==
  PassEnded =>
    LET once == PassResult(before, qd_measurements, LastReport.update_field,
                           first, last, Unique(locations))
    IN /\ LastReport.inserted <= LastReport.considered
       /\ LastReport.considered = PerOccurrence(locations)
       /\ Len(issued) = PerOccurrence(locations)
       /\ Rows(work) = Rows(once)
       /\ Len(work) = Len(once)
       /\ LastReport.inserted = Len(once) - Len(before)

C20_Witness ==
  /\ PassEnded
  /\ Len(locations) = 2 /\ locations[1] = locations[2]
  /\ LastReport.inserted = 1
  /\ LastReport.considered = 4
  /\ Cardinality(IssuedKeys) = 2

====
